---- MODULE Spec2Model ----
(***************************************************************************)
(* A model of the watchlist screener: the technical-analysis evaluators of *)
(* technical_analysis.py, the Polygon client of api_client.py and the      *)
(* /analyze request of app.py.                                             *)
(*                                                                         *)
(* Numbers.  The program computes with float64.  Here a price or a volume  *)
(* is an integer, and every derived quantity (an EMA, a MACD, an RSI) is a *)
(* fixed-point integer counting 1/Scale units, rounded down at each step.  *)
(* A float that may be NaN is a sequence: <<>> is NaN, <<v>> is the number *)
(* v.  A comparison with NaN is false, as in IEEE 754.                     *)
(***************************************************************************)
EXTENDS Integers, Sequences, FiniteSets, TLC

VARIABLES
    watchlist,        \* rows of the watchlist table, newest first
    cache,            \* PolygonAPIClient._cache: key -> [data, time]
    now,              \* time.time()
    pc,               \* where the /analyze request stands
    criteria,         \* the criteria of the request in progress
    idx,              \* loop position in the watchlist (1-based)
    results,          \* `results` of analyze_watchlist
    errors,           \* data_error of each processed ticker
    passing_results,  \* the filtered view handed to the template
    df,               \* evaluator harness: the frame under test
    series,           \* evaluator harness: <<macd, signal>> under test
    nAppended,        \* evaluator harness: points appended so far
    args,             \* evaluator harness: the other arguments of the call
    out               \* evaluator harness: what the last call returned

vars == <<watchlist, cache, now, pc, criteria, idx, results, errors,
          passing_results, df, series, nAppended, args, out>>

appVars == <<watchlist, cache, now, pc, criteria, idx, results, errors,
             passing_results>>

harnessVars == <<df, series, nAppended, args, out>>

----------------------------------------------------------------------------
(* Bounds of the model *)

\* fixed-point resolution: units per 1.0
Scale == 1000

\* bars appended to a prepared frame in the evaluator specifications
MaxTail == 3

\* rows of the frame in the RSI evaluator specification
MaxPoints == 4

\* points per series in the MACD evaluator specification
MaxMacdPoints == 3

----------------------------------------------------------------------------
(* Floats *)

NaN == <<>>

Num(v) == <<v>>

notna(x) == x # NaN

dropna(s) == SelectSeq(s, notna)

Gt(x, y) == notna(x) /\ notna(y) /\ x[1] > y[1]

Le(x, y) == notna(x) /\ notna(y) /\ x[1] <= y[1]

\* the function f over 1..n, as the sequence of its n values
Series(f, n) == SubSeq(f, 1, n)

Last(s) == s[Len(s)]

Prev(s) == s[Len(s) - 1]

----------------------------------------------------------------------------
(* Verdicts: {"status", "message", "value"}; value None is <<>> *)

Pass == "Pass"

Fail == "Fail"

Warn == "Warn"

None == <<>>

Verdict(s, m, v) == [status |-> s, message |-> m, value |-> v]

----------------------------------------------------------------------------
(* DataFrames: the columns the program reads, and the column set *)

EmptyFrame == [columns |-> {}, Close |-> <<>>, Volume |-> <<>>, RSI |-> <<>>]

Frame(closes, volumes) ==
    [columns |-> {"Open", "High", "Low", "Close", "Volume"},
     Close |-> closes, Volume |-> volumes, RSI |-> <<>>]

len(d) == Len(d.Close)

empty(d) == len(d) = 0

----------------------------------------------------------------------------
(* pandas primitives, as the evaluators use them *)

\* Series.ewm(alpha=num/den, min_periods, adjust=False).mean() over a series
\* whose NaNs (if any) lead it: the first observation seeds the average, each
\* later one gives (1-alpha)*previous + alpha*current, and an entry is
\* defined once min_periods observations have been seen.
ewm_mean(xs, num, den, min_periods) ==
    LET f[i \in 0..Len(xs)] ==
            IF i = 0 THEN [w |-> NaN, nobs |-> 0, res |-> <<>>]
            ELSE LET p == f[i - 1]
                     cur == xs[i]
                     w2 == IF cur = NaN THEN p.w
                           ELSE IF p.w = NaN THEN cur
                           ELSE Num(((den - num) * p.w[1] + num * cur[1]) \div den)
                     n2 == IF cur = NaN THEN p.nobs ELSE p.nobs + 1
                 IN  [w |-> w2, nobs |-> n2,
                      res |-> Append(p.res, IF n2 >= min_periods THEN w2 ELSE NaN)]
    IN  f[Len(xs)].res

\* Series.ewm(span=span, adjust=False).mean(): alpha = 2/(span+1)
ewm_span(xs, span) == ewm_mean(xs, 2, span + 1, 0)

\* df['Close'] as a float series (fixed point)
close_series(d) == Series([i \in 1..len(d) |-> Num(d.Close[i] * Scale)], len(d))

\* Series.diff(): the first entry is NaN
diff(xs) ==
    Series([i \in 1..Len(xs) |->
               IF i = 1 \/ xs[i] = NaN \/ xs[i - 1] = NaN THEN NaN
               ELSE Num(xs[i][1] - xs[i - 1][1])], Len(xs))

\* Series.clip(lower=0)
clip_lower0(xs) ==
    Series([i \in 1..Len(xs) |->
               IF xs[i] = NaN THEN NaN
               ELSE Num(IF xs[i][1] < 0 THEN 0 ELSE xs[i][1])], Len(xs))

\* -Series.clip(upper=0)
neg_clip_upper0(xs) ==
    Series([i \in 1..Len(xs) |->
               IF xs[i] = NaN THEN NaN
               ELSE Num(IF xs[i][1] > 0 THEN 0 ELSE 0 - xs[i][1])], Len(xs))

\* sum and maximum of the window of w entries of the integer sequence xs
\* that ends at i
RECURSIVE window_sum(_, _, _)
window_sum(xs, i, w) ==
    IF w = 0 THEN 0 ELSE xs[i] + window_sum(xs, i - 1, w - 1)

RECURSIVE window_max(_, _, _)
window_max(xs, i, w) ==
    IF w = 1 THEN xs[i]
    ELSE LET m == window_max(xs, i - 1, w - 1)
         IN  IF xs[i] > m THEN xs[i] ELSE m

\* Series.rolling(window=w).max(): NaN until w entries exist
rolling_max(xs, w) ==
    Series([i \in 1..Len(xs) |->
               IF i < w THEN NaN ELSE Num(window_max(xs, i, w))], Len(xs))

\* Series.shift(1)
shift1(xs) ==
    Series([i \in 1..Len(xs) |-> IF i = 1 THEN NaN ELSE xs[i - 1]], Len(xs))

----------------------------------------------------------------------------
(* TechnicalAnalyzer: indicators *)

\* rsi = 100 - 100/(1 + avg_gain/avg_loss) in float arithmetic: x/0 is inf
\* for x > 0 (then rsi = 100) and 0/0 is NaN
rsi_value(g, l) ==
    IF g = NaN \/ l = NaN THEN NaN
    ELSE IF l[1] = 0 THEN (IF g[1] = 0 THEN NaN ELSE Num(100 * Scale))
    ELSE Num((100 * Scale * g[1]) \div (g[1] + l[1]))

calculate_rsi(d, period) ==
    IF "Close" \notin d.columns \/ len(d) < period THEN <<>>
    ELSE LET delta == diff(close_series(d))
             gain == clip_lower0(delta)
             loss == neg_clip_upper0(delta)
             avg_gain == ewm_mean(gain, 1, period, period)
             avg_loss == ewm_mean(loss, 1, period, period)
         IN  Series([i \in 1..len(d) |-> rsi_value(avg_gain[i], avg_loss[i])],
                    len(d))

\* data_df['RSI'] = <series>: the column is added to the frame in place; a
\* series with no entry for a row leaves NaN there
set_RSI(d, s) ==
    [d EXCEPT !.columns = @ \cup {"RSI"},
              !.RSI = Series([i \in 1..len(d) |->
                                 IF i <= Len(s) THEN s[i] ELSE NaN], len(d))]

\* get_macd gating on the fast span instead of the slow one
get_macd_gate_fast(data, fast, slow, signal_period) ==
    IF len(data) < fast THEN <<<<>>, <<>>>>
    ELSE LET ema_fast == ewm_span(close_series(data), fast)
             ema_slow == ewm_span(close_series(data), slow)
             macd == Series([i \in 1..len(data) |->
                                Num(ema_fast[i][1] - ema_slow[i][1])], len(data))
         IN  <<macd, ewm_span(macd, signal_period)>>

get_macd(data, fast, slow, signal_period) ==
    IF len(data) < slow THEN <<<<>>, <<>>>>
    ELSE LET ema_fast == ewm_span(close_series(data), fast)
             ema_slow == ewm_span(close_series(data), slow)
             macd == Series([i \in 1..len(data) |->
                                Num(ema_fast[i][1] - ema_slow[i][1])], len(data))
             signal_line == ewm_span(macd, signal_period)
         IN  <<macd, signal_line>>

----------------------------------------------------------------------------
(* TechnicalAnalyzer: signal evaluators.  A message is the text of its     *)
(* branch; the number an f-string interpolates into it is carried by the   *)
(* verdict's value.                                                        *)

\* check_rsi_condition with the range open at both ends
check_rsi_condition_open_range(d) ==
    IF "RSI" \notin d.columns \/ Len(dropna(d.RSI)) < 2
    THEN Verdict(Fail, "Not enough RSI data", None)
    ELSE LET current_rsi == Last(dropna(d.RSI))[1]
             previous_rsi == Prev(dropna(d.RSI))[1]
         IN  IF /\ 30 * Scale < current_rsi /\ current_rsi < 60 * Scale
                /\ 30 * Scale < previous_rsi /\ previous_rsi < 60 * Scale
                /\ current_rsi > previous_rsi
             THEN Verdict(Pass, "RSI is between 30-60 and rising", <<current_rsi>>)
             ELSE Verdict(Fail, "RSI condition not met", <<current_rsi>>)

check_rsi_condition(d) ==
    IF "RSI" \notin d.columns \/ Len(dropna(d.RSI)) < 2
    THEN Verdict(Fail, "Not enough RSI data", None)
    ELSE LET rsi == dropna(d.RSI)
             recent_rsi == SubSeq(rsi, Len(rsi) - 1, Len(rsi))
             current_rsi == recent_rsi[2][1]
             previous_rsi == recent_rsi[1][1]
             is_in_range == /\ 30 * Scale <= current_rsi /\ current_rsi <= 60 * Scale
                            /\ 30 * Scale <= previous_rsi /\ previous_rsi <= 60 * Scale
             is_rising == current_rsi > previous_rsi
         IN  IF is_in_range /\ is_rising
             THEN Verdict(Pass, "RSI is between 30-60 and rising", <<current_rsi>>)
             ELSE Verdict(Fail, "RSI condition not met", <<current_rsi>>)

\* check_macd_crossover_or_rising reading the ends of the series as given,
\* without dropping the undefined points
check_macd_no_dropna(macd, signal) ==
    IF Len(macd) < 2 \/ Len(signal) < 2
    THEN Verdict(Fail, "Not enough MACD data", None)
    ELSE IF \/ Gt(Last(macd), Last(signal)) /\ Le(Prev(macd), Prev(signal))
            \/ Gt(Last(macd), Prev(macd))
         THEN Verdict(Pass, "MACD is rising or has crossed above the signal line",
                      <<Last(macd), Last(signal)>>)
         ELSE Verdict(Fail, "MACD condition not met", <<Last(macd), Last(signal)>>)

check_macd_crossover_or_rising(macd_in, signal_in) ==
    LET macd == dropna(macd_in)
        signal == dropna(signal_in)
    IN  IF Len(macd) < 2 \/ Len(signal) < 2
        THEN Verdict(Fail, "Not enough MACD data", None)
        ELSE LET macd_last == Last(macd)[1]
                 macd_prev == Prev(macd)[1]
                 signal_last == Last(signal)[1]
                 signal_prev == Prev(signal)[1]
                 crossover == (macd_last > signal_last) /\ (macd_prev <= signal_prev)
                 is_rising == macd_last > macd_prev
             IN  IF crossover \/ is_rising
                 THEN Verdict(Pass, "MACD is rising or has crossed above the signal line",
                              <<macd_last, signal_last>>)
                 ELSE Verdict(Fail, "MACD condition not met",
                              <<macd_last, signal_last>>)

\* What ta.trend.ADXIndicator (a library, not this program) gives for a
\* frame: it raises, or its three series end in these values.
AdxOutcome(raised, a, p, m) ==
    [raised |-> raised, adx |-> a, plus_di |-> p, minus_di |-> m]

\* check_dmi_trend with the ADX threshold met at exactly 20
check_dmi_trend_adx_ge(d, ind) ==
    IF len(d) < 28
    THEN Verdict(Fail, "Not enough data for DMI calculation", None)
    ELSE IF ind.raised \/ ~({"High", "Low", "Close"} \subseteq d.columns)
    THEN Verdict(Fail, "Error calculating DMI", None)
    ELSE IF notna(ind.adx) /\ ind.adx[1] >= 20 * Scale /\ Gt(ind.plus_di, ind.minus_di)
         THEN Verdict(Pass, "Bullish DMI trend confirmed",
                      <<ind.adx, ind.plus_di, ind.minus_di>>)
         ELSE Verdict(Fail, "DMI condition not met",
                      <<ind.adx, ind.plus_di, ind.minus_di>>)

check_dmi_trend(d, ind) ==
    IF len(d) < 28
    THEN Verdict(Fail, "Not enough data for DMI calculation", None)
    ELSE IF ind.raised \/ ~({"High", "Low", "Close"} \subseteq d.columns)
    THEN Verdict(Fail, "Error calculating DMI", None)
    ELSE LET last_adx == ind.adx
             last_plus_di == ind.plus_di
             last_minus_di == ind.minus_di
         IN  IF Gt(last_adx, Num(20 * Scale)) /\ Gt(last_plus_di, last_minus_di)
             THEN Verdict(Pass, "Bullish DMI trend confirmed",
                          <<last_adx, last_plus_di, last_minus_di>>)
             ELSE Verdict(Fail, "DMI condition not met",
                          <<last_adx, last_plus_di, last_minus_di>>)

\* check_ema_crossover demanding the fast EMA strictly below the slow one
\* on the previous bar
check_ema_crossover_strict_prev(d, fast, slow) ==
    IF len(d) < slow
    THEN Verdict(Fail, "Not enough data for EMA calculation", None)
    ELSE LET ema_fast == ewm_span(close_series(d), fast)
             ema_slow == ewm_span(close_series(d), slow)
         IN  IF Prev(ema_fast)[1] < Prev(ema_slow)[1] /\ Gt(Last(ema_fast), Last(ema_slow))
             THEN Verdict(Pass, "EMA 8 just crossed above EMA 21",
                          <<Last(ema_fast), Last(ema_slow)>>)
             ELSE Verdict(Fail, "No recent bullish EMA crossover",
                          <<Last(ema_fast), Last(ema_slow)>>)

\* check_ema_crossover gating on the fast span instead of the slow one
check_ema_crossover_gate_fast(d, fast, slow) ==
    IF len(d) < fast
    THEN Verdict(Fail, "Not enough data for EMA calculation", None)
    ELSE LET ema_fast == ewm_span(close_series(d), fast)
             ema_slow == ewm_span(close_series(d), slow)
         IN  IF Le(Prev(ema_fast), Prev(ema_slow)) /\ Gt(Last(ema_fast), Last(ema_slow))
             THEN Verdict(Pass, "EMA 8 just crossed above EMA 21",
                          <<Last(ema_fast), Last(ema_slow)>>)
             ELSE Verdict(Fail, "No recent bullish EMA crossover",
                          <<Last(ema_fast), Last(ema_slow)>>)

check_ema_crossover(d, fast, slow) ==
    IF len(d) < slow
    THEN Verdict(Fail, "Not enough data for EMA calculation", None)
    ELSE LET ema_fast == ewm_span(close_series(d), fast)
             ema_slow == ewm_span(close_series(d), slow)
         IN  IF len(d) < 2
             THEN Verdict(Fail, "Not enough data to check for crossover", None)
             ELSE LET prev_fast == Prev(ema_fast)
                      prev_slow == Prev(ema_slow)
                      curr_fast == Last(ema_fast)
                      curr_slow == Last(ema_slow)
                  IN  IF Le(prev_fast, prev_slow) /\ Gt(curr_fast, curr_slow)
                      THEN Verdict(Pass, "EMA 8 just crossed above EMA 21",
                                   <<curr_fast, curr_slow>>)
                      ELSE Verdict(Fail, "No recent bullish EMA crossover",
                                   <<curr_fast, curr_slow>>)

\* rvol = Volume / Volume.rolling(20).mean() at the last bar, kept as the
\* exact ratio num/den (den = 0 only when every volume of the window is 0,
\* where the float is NaN)
last_rvol_of(d) ==
    LET n == len(d)
    IN  [num |-> d.Volume[n] * 20, den |-> window_sum(d.Volume, n, 20)]

rvol_gt2(r) == r.den > 0 /\ r.num > 2 * r.den

rvol_float(r) == IF r.den = 0 THEN NaN ELSE Num((r.num * Scale) \div r.den)

\* check_short_squeeze_risk with the resistance not shifted: the rolling
\* maximum then includes the current bar
check_short_squeeze_risk_no_shift(d) ==
    IF len(d) < 30
    THEN Verdict(Fail, "Not enough data for squeeze analysis", None)
    ELSE LET last_close == Num(Last(d.Close))
             last_resistance == Last(rolling_max(d.Close, 30))
             last_rvol == last_rvol_of(d)
             value == <<rvol_float(last_rvol), last_resistance, last_close>>
         IN  IF Gt(last_close, last_resistance) /\ rvol_gt2(last_rvol)
             THEN Verdict(Warn, "Potential short squeeze risk detected!", value)
             ELSE Verdict(Pass, "No major short squeeze risk detected", value)

check_short_squeeze_risk(d) ==
    IF len(d) < 30
    THEN Verdict(Fail, "Not enough data for squeeze analysis", None)
    ELSE IF ~({"Close", "Volume"} \subseteq d.columns)
    THEN Verdict(Fail, "Error analyzing squeeze risk", None)
    ELSE LET resistance == shift1(rolling_max(d.Close, 30))
             last_close == Num(Last(d.Close))
             last_resistance == Last(resistance)
             last_rvol == last_rvol_of(d)
             has_breakout == Gt(last_close, last_resistance) /\ rvol_gt2(last_rvol)
             value == <<rvol_float(last_rvol), last_resistance, last_close>>
         IN  IF has_breakout
             THEN Verdict(Warn, "Potential short squeeze risk detected!", value)
             ELSE Verdict(Pass, "No major short squeeze risk detected", value)

----------------------------------------------------------------------------
(* PolygonAPIClient.  A response is what _make_request gives: it raises    *)
(* (no key, a network or HTTP error), or it returns the JSON, of which     *)
(* `results` is modelled.  Every fetch returns the value, the error string *)
(* and the cache as it leaves it.                                          *)

Response(raised, res) == [raised |-> raised, results |-> res]

\* exc: the call raised instead of returning (no fetch does: each catches
\* every exception of its request)
Fetched(v, e, c) == [val |-> v, err |-> e, cache |-> c, exc |-> FALSE]

Raised(c) == [val |-> None, err |-> "", cache |-> c, exc |-> TRUE]

\* the freshness test with an entry still fresh at the age of exactly ttl
cache_fresh_le(c, key, t, ttl) == key \in DOMAIN c /\ t - c[key].time <= ttl

\* cache_key in self._cache and time.time() - cached_time < ttl
cache_fresh(c, key, t, ttl) == key \in DOMAIN c /\ t - c[key].time < ttl

\* self._cache[cache_key] = (value, time.time())
cache_put(c, key, v, t) ==
    [k \in DOMAIN c \cup {key} |->
        IF k = key THEN [data |-> v, time |-> t] ELSE c[k]]

\* pd.DataFrame(data['results']) with the columns renamed: results is the
\* sequence of bars <<c, v>>
frame_of(res) ==
    Frame(Series([i \in 1..Len(res) |-> res[i][1]], Len(res)),
          Series([i \in 1..Len(res) |-> res[i][2]], Len(res)))

\* get_daily_data without its `except Exception`: the exception of the
\* request leaves the call
get_daily_data_uncaught(c, t, ticker, period_days, resp) ==
    LET cache_key == <<"daily", ticker, period_days>>
    IN  IF cache_fresh(c, cache_key, t, 3600)
        THEN Fetched(c[cache_key].data, "", c)
        ELSE IF resp.raised THEN Raised(c)
        ELSE IF resp.results = <<>>
        THEN Fetched(EmptyFrame, "No daily data found", c)
        ELSE Fetched(frame_of(resp.results), "",
                     cache_put(c, cache_key, frame_of(resp.results), t))

get_daily_data(c, t, ticker, period_days, resp) ==
    LET cache_key == <<"daily", ticker, period_days>>
    IN  IF cache_fresh(c, cache_key, t, 3600)
        THEN Fetched(c[cache_key].data, "", c)
        ELSE IF resp.raised THEN Fetched(EmptyFrame, "request failed", c)
        ELSE IF resp.results = <<>>
        THEN Fetched(EmptyFrame, "No daily data found", c)
        ELSE Fetched(frame_of(resp.results), "",
                     cache_put(c, cache_key, frame_of(resp.results), t))

get_weekly_data(c, t, ticker, resp) ==
    LET cache_key == <<"weekly", ticker>>
    IN  IF cache_fresh(c, cache_key, t, 3600)
        THEN Fetched(c[cache_key].data, "", c)
        ELSE IF resp.raised THEN Fetched(EmptyFrame, "request failed", c)
        ELSE IF resp.results = <<>>
        THEN Fetched(EmptyFrame, "No weekly data found", c)
        ELSE Fetched(frame_of(resp.results), "",
                     cache_put(c, cache_key, frame_of(resp.results), t))

\* results is the sequence of previous-day bars <<c>>
get_current_price(c, t, ticker, resp) ==
    LET cache_key == <<"price", ticker>>
    IN  IF cache_fresh(c, cache_key, t, 600)
        THEN Fetched(c[cache_key].data, "", c)
        ELSE IF resp.raised THEN Fetched(None, "request failed", c)
        ELSE IF resp.results # <<>>
        THEN LET price == Num(resp.results[1][1])
             IN  Fetched(price, "", cache_put(c, cache_key, price, t))
        ELSE Fetched(None, "Price not found.", c)

\* results is the sequence of events <<type, date>>, a date being a day
\* number; <<>> also stands for a reply without results or without events
earliest(dates) == CHOOSE m \in dates : \A x \in dates : m <= x

get_next_earnings_date(c, t, ticker, resp) ==
    LET cache_key == <<"earnings", ticker>>
    IN  IF cache_fresh(c, cache_key, t, 86400)
        THEN Fetched(c[cache_key].data, "", c)
        ELSE IF resp.raised THEN Fetched(None, "request failed", c)
        ELSE LET earnings_events ==
                     {resp.results[i][2] : i \in
                         {j \in 1..Len(resp.results) : resp.results[j][1] = "earnings"}}
             IN  IF earnings_events # {}
                 THEN LET next_earnings == <<earliest(earnings_events)>>
                      IN  Fetched(next_earnings, "",
                                  cache_put(c, cache_key, next_earnings, t))
                 ELSE Fetched(None, "No upcoming earnings found.", c)

----------------------------------------------------------------------------
(* TechnicalAnalyzer.analyze_ticker *)

CriteriaNames ==
    {"avoid_squeeze", "rsi_confirmation", "dmi_confirmation", "ema_crossover",
     "macd_crossover", "weekly_macd", "next_earning_date"}

Metadata == {"ticker", "asset_type", "current_price"}

\* criteria.get(name)
flag(crit, name) == name \in DOMAIN crit /\ crit[name]

\* the guard of a criterion's block: its flag, and for every criterion but
\* the RSI one, asset_type == 'Stock'
enabled_any_asset(crit, name, asset_type) == flag(crit, name)

enabled_any_flag(crit, name, asset_type) ==
    name = "rsi_confirmation" \/ asset_type = "Stock"

enabled(crit, name, asset_type) ==
    flag(crit, name) /\ (name = "rsi_confirmation" \/ asset_type = "Stock")

\* {"value": current_price, "formatted": "$x.xx" if current_price else "N/A"}
price_entry(current_price) ==
    [value |-> current_price,
     formatted |-> IF current_price = None \/ current_price[1] = 0
                   THEN <<"N/A">> ELSE <<"$", current_price[1]>>]

\* The call returns the result, and leaves behind data_df (it gains the RSI
\* column in place) and the client's cache (the earnings fetch).  ind is
\* what ADXIndicator gives for daily_df, resp what the earnings request
\* gives.
analyze_ticker(ticker, asset_type, data_df, daily_df, current_price, crit, c, t, ind, resp) ==
    LET bars == ~empty(data_df)
        do_rsi == bars /\ enabled(crit, "rsi_confirmation", asset_type)
        data_df2 == IF do_rsi THEN set_RSI(data_df, calculate_rsi(data_df, 14))
                    ELSE data_df
        do_earnings == enabled(crit, "next_earning_date", asset_type)
        e == get_next_earnings_date(c, t, ticker, resp)
        \* the criteria that get a verdict: the bar criteria inside
        \* `if not data_df.empty`, the earnings date outside it
        evaluated == {name \in CriteriaNames :
                         /\ enabled(crit, name, asset_type)
                         /\ bars \/ name = "next_earning_date"}
        entry(k) ==
            CASE k = "ticker" -> ticker
              [] k = "asset_type" -> asset_type
              [] k = "current_price" -> price_entry(current_price)
              [] k = "rsi_confirmation" -> check_rsi_condition(data_df2)
              [] k = "dmi_confirmation" -> check_dmi_trend(daily_df, ind)
              [] k = "ema_crossover" -> check_ema_crossover(daily_df, 8, 21)
              [] k = "macd_crossover" ->
                     check_macd_crossover_or_rising(get_macd(daily_df, 8, 21, 9)[1],
                                                    get_macd(daily_df, 8, 21, 9)[2])
              [] k = "weekly_macd" ->
                     check_macd_crossover_or_rising(get_macd(data_df2, 12, 26, 9)[1],
                                                    get_macd(data_df2, 12, 26, 9)[2])
              [] k = "avoid_squeeze" -> check_short_squeeze_risk(daily_df)
              [] k = "next_earning_date" ->
                     Verdict(IF e.val # None THEN Pass ELSE Fail,
                             IF e.val # None THEN e.val ELSE e.err,
                             e.val)
    IN  [result |-> [k \in Metadata \cup evaluated |-> entry(k)],
         data_df |-> data_df2,
         cache |-> IF do_earnings THEN e.cache ELSE c,
         exc |-> do_earnings /\ e.exc]

----------------------------------------------------------------------------
(* The state before any request, and before any evaluator call *)

NoCriteria == [c \in {} |-> FALSE]

AppIdle ==
    /\ cache = <<>>
    /\ now = 0
    /\ pc = "idle"
    /\ criteria = NoCriteria
    /\ idx = 0
    /\ results = <<>>
    /\ errors = <<>>
    /\ passing_results = <<>>

NoInd == AdxOutcome(FALSE, NaN, NaN, NaN)

NoArgs == [ticker |-> "", asset_type |-> "", daily_df |-> EmptyFrame,
           current_price |-> None]

NoCall == [fn |-> "none", verdict |-> Verdict(Fail, "", None), ind |-> NoInd]

Call(fn, v, ind) == [fn |-> fn, verdict |-> v, ind |-> ind]

----------------------------------------------------------------------------
(* Evaluators on bar frames: a frame of flat bars is extended bar by bar,  *)
(* and each evaluator is called on what has been built.                    *)

\* the flat bar: <<close, volume>>
FlatBar == <<10, 9>>

FlatClose == FlatBar[1]

FlatVolume == FlatBar[2]

Flat(n, x) == Series([i \in 1..n |-> x], n)

PrefixLens == {1, 19, 20, 26, 27, 28, 29, 30}

\* the bars that may follow the flat ones
BarChoices ==
    {<<9, 9>>, <<10, 20>>, <<11, 9>>, <<11, 19>>, <<11, 20>>}

\* the ends of the three ADXIndicator series, or an exception
AdxOutcomes ==
    {AdxOutcome(TRUE, NaN, NaN, NaN)} \cup
    {AdxOutcome(FALSE, a, p, m) :
        a \in {NaN, Num(20 * Scale), Num(20 * Scale + 1)},
        p \in {Num(10 * Scale), Num(20 * Scale)},
        m \in {NaN, Num(10 * Scale), Num(20 * Scale)}}

InitBars ==
    /\ AppIdle
    /\ watchlist = <<>>
    /\ df \in {EmptyFrame} \cup
              {Frame(Flat(n, FlatClose), Flat(n, FlatVolume)) : n \in PrefixLens}
    /\ series = <<<<>>, <<>>>>
    /\ nAppended = 0
    /\ args = NoArgs
    /\ out = NoCall

AppendBar(b) ==
    /\ ~empty(df)
    /\ nAppended < MaxTail
    /\ df' = [df EXCEPT !.Close = Append(@, b[1]), !.Volume = Append(@, b[2])]
    /\ nAppended' = nAppended + 1
    /\ out' = NoCall
    /\ UNCHANGED <<series, args>>
    /\ UNCHANGED appVars

CallEma ==
    /\ out' = Call("check_ema_crossover", check_ema_crossover(df, 8, 21), NoInd)
    /\ UNCHANGED <<df, series, nAppended, args>>
    /\ UNCHANGED appVars

CallSqueeze ==
    /\ out' = Call("check_short_squeeze_risk", check_short_squeeze_risk(df), NoInd)
    /\ UNCHANGED <<df, series, nAppended, args>>
    /\ UNCHANGED appVars

CallDmi(ind) ==
    /\ out' = Call("check_dmi_trend", check_dmi_trend(df, ind), ind)
    /\ UNCHANGED <<df, series, nAppended, args>>
    /\ UNCHANGED appVars

NextBars ==
    \/ \E b \in BarChoices : AppendBar(b)
    \/ CallEma
    \/ CallSqueeze
    \/ \E ind \in AdxOutcomes : CallDmi(ind)

SpecBars == InitBars /\ [][NextBars]_vars

----------------------------------------------------------------------------
(* Claims about the evaluators on bar frames (SpecBars) *)

\* the EMA of the closes at bar i, by its recurrence:
\* e(1) = close(1), e(i) = (2*close(i) + (span-1)*e(i-1)) / (span+1)
RECURSIVE EmaAt(_, _, _)
EmaAt(closes, span, i) ==
    IF i = 1 THEN closes[1] * Scale
    ELSE (2 * closes[i] * Scale + (span - 1) * EmaAt(closes, span, i - 1))
            \div (span + 1)

\* fast(8) is at or below slow(21) at bar i-1 and strictly above it at bar i
CrossesAt(closes, i) ==
    /\ i >= 2
    /\ EmaAt(closes, 8, i - 1) <= EmaAt(closes, 21, i - 1)
    /\ EmaAt(closes, 8, i) > EmaAt(closes, 21, i)

\* C7: check_ema_crossover (spans 8 and 21) returns Pass exactly when the
\* frame has at least 21 bars and the fast EMA crosses above the slow EMA
\* at the last bar, and Fail otherwise; so a crossover one bar earlier and a
\* frame of fewer than 21 bars give Fail.
C7_EmaCrossover ==
    out.fn = "check_ema_crossover" =>
        LET n == len(df)
            st == out.verdict.status
        IN  /\ st \in {Pass, Fail}
            /\ st = Pass <=> (n >= 21 /\ CrossesAt(df.Close, n))
            /\ n < 21 => st = Fail
            /\ (n >= 22 /\ CrossesAt(df.Close, n - 1)) => st = Fail

\* a frame of 21+ bars ending ..., 9, 11 on which the evaluator said Pass
C7_Witness ==
    /\ out.fn = "check_ema_crossover"
    /\ out.verdict.status = Pass
    /\ len(df) >= 21
    /\ Last(df.Close) = 11
    /\ Prev(df.Close) = 9

\* the largest close among the 30 bars before bar n
ResistanceBefore(closes, n) ==
    LET S == {closes[i] : i \in (n - 30)..(n - 1)}
    IN  CHOOSE m \in S : \A x \in S : x <= m

\* the volumes of the 20 bars ending at bar n, summed
RECURSIVE VolumeSum(_, _, _)
VolumeSum(volumes, from, to) ==
    IF from > to THEN 0 ELSE volumes[from] + VolumeSum(volumes, from + 1, to)

\* the last close is above the 30 bars before it and the last volume is more
\* than twice the mean of the last 20 volumes
Breakout(d) ==
    LET n == len(d)
    IN  /\ n >= 31
        /\ d.Close[n] > ResistanceBefore(d.Close, n)
        /\ 20 * d.Volume[n] > 2 * VolumeSum(d.Volume, n - 19, n)

\* C8: on a frame of at least 30 bars check_short_squeeze_risk returns Warn
\* exactly when the last close is strictly above the 30-bar rolling maximum
\* of the bars before it and the last volume is more than twice the 20-bar
\* mean volume, and Pass otherwise; on fewer than 30 bars it returns Fail.
C8_ShortSqueeze ==
    out.fn = "check_short_squeeze_risk" =>
        LET st == out.verdict.status
        IN  IF len(df) < 30 THEN st = Fail
            ELSE /\ st = Warn <=> Breakout(df)
                 /\ ~Breakout(df) => st = Pass

\* a breakout on high relative volume was reported as Warn
C8_Witness ==
    /\ out.fn = "check_short_squeeze_risk"
    /\ out.verdict.status = Warn
    /\ len(df) >= 31
    /\ Last(df.Close) > FlatClose

\* C10: check_dmi_trend returns Pass exactly when the frame has at least 28
\* bars, the indicator did not fail, the last ADX is strictly above 20 and
\* the last +DI strictly above the last -DI; otherwise it returns Fail.
C10_DmiTrend ==
    out.fn = "check_dmi_trend" =>
        LET st == out.verdict.status
            i == out.ind
            bullish == /\ ~i.raised
                       /\ i.adx # NaN /\ i.plus_di # NaN /\ i.minus_di # NaN
                       /\ i.adx[1] > 20 * Scale
                       /\ i.plus_di[1] > i.minus_di[1]
        IN  /\ st \in {Pass, Fail}
            /\ st = Pass <=> (len(df) >= 28 /\ bullish)

\* a bullish reading on exactly 28 bars passed
C10_Witness ==
    /\ out.fn = "check_dmi_trend"
    /\ out.verdict.status = Pass
    /\ len(df) = 28
    /\ out.ind.adx = Num(20 * Scale + 1)

----------------------------------------------------------------------------
(* check_rsi_condition on a frame whose RSI column holds arbitrary values  *)

RsiPoints ==
    {NaN, Num(30 * Scale - 1), Num(30 * Scale), Num(45 * Scale),
     Num(60 * Scale), Num(60 * Scale + 1)}

InitRsi ==
    /\ AppIdle
    /\ watchlist = <<>>
    /\ df \in {Frame(<<>>, <<>>), set_RSI(Frame(<<>>, <<>>), <<>>)}
    /\ series = <<<<>>, <<>>>>
    /\ nAppended = 0
    /\ args = NoArgs
    /\ out = NoCall

\* one more row, with the RSI entry x where the frame has the column
AppendRsiRow(x) ==
    /\ nAppended < MaxPoints
    /\ df' = [df EXCEPT !.Close = Append(@, FlatClose),
                        !.Volume = Append(@, FlatVolume),
                        !.RSI = IF "RSI" \in df.columns THEN Append(@, x) ELSE @]
    /\ nAppended' = nAppended + 1
    /\ out' = NoCall
    /\ UNCHANGED <<series, args>>
    /\ UNCHANGED appVars

CallRsi ==
    /\ out' = Call("check_rsi_condition", check_rsi_condition(df), NoInd)
    /\ UNCHANGED <<df, series, nAppended, args>>
    /\ UNCHANGED appVars

NextRsi ==
    \/ \E x \in RsiPoints : AppendRsiRow(x)
    \/ CallRsi

SpecRsi == InitRsi /\ [][NextRsi]_vars

\* the positions of the defined points of a series, and the last two
DefinedAt(s) == {i \in 1..Len(s) : s[i] # NaN}

MaxOf(S) == CHOOSE m \in S : \A x \in S : x <= m

LastDefined(s) == s[MaxOf(DefinedAt(s))][1]

PrevDefined(s) == s[MaxOf(DefinedAt(s) \ {MaxOf(DefinedAt(s))})][1]

InRsiRange(v) == 30 * Scale <= v /\ v <= 60 * Scale

\* C9: check_rsi_condition returns Pass exactly when the RSI column has at
\* least two defined values, the last two of them lie in [30, 60] (bounds
\* included) and the last is strictly greater than the one before it; in
\* every other case it returns Fail.
C9_RsiCondition ==
    out.fn = "check_rsi_condition" =>
        LET st == out.verdict.status
            ok == /\ "RSI" \in df.columns
                  /\ Cardinality(DefinedAt(df.RSI)) >= 2
                  /\ InRsiRange(LastDefined(df.RSI))
                  /\ InRsiRange(PrevDefined(df.RSI))
                  /\ LastDefined(df.RSI) > PrevDefined(df.RSI)
        IN  /\ st \in {Pass, Fail}
            /\ st = Pass <=> ok

\* a rise from exactly 30 to exactly 60, with an undefined value after it,
\* passed
C9_Witness ==
    /\ out.fn = "check_rsi_condition"
    /\ out.verdict.status = Pass
    /\ Last(df.RSI) = NaN
    /\ PrevDefined(df.RSI) = 30 * Scale
    /\ LastDefined(df.RSI) = 60 * Scale

----------------------------------------------------------------------------
(* check_macd_crossover_or_rising on arbitrary series                      *)

MacdPoints == {NaN, Num(0), Num(Scale)}

InitMacd ==
    /\ AppIdle
    /\ watchlist = <<>>
    /\ df = EmptyFrame
    /\ series = <<<<>>, <<>>>>
    /\ nAppended = 0
    /\ args = NoArgs
    /\ out = NoCall

AppendMacd(x) ==
    /\ Len(series[1]) < MaxMacdPoints
    /\ series' = <<Append(series[1], x), series[2]>>
    /\ out' = NoCall
    /\ UNCHANGED <<df, nAppended, args>>
    /\ UNCHANGED appVars

AppendSignal(x) ==
    /\ Len(series[2]) < MaxMacdPoints
    /\ series' = <<series[1], Append(series[2], x)>>
    /\ out' = NoCall
    /\ UNCHANGED <<df, nAppended, args>>
    /\ UNCHANGED appVars

CallMacd ==
    /\ out' = Call("check_macd_crossover_or_rising",
                   check_macd_crossover_or_rising(series[1], series[2]), NoInd)
    /\ UNCHANGED <<df, series, nAppended, args>>
    /\ UNCHANGED appVars

NextMacd ==
    \/ \E x \in MacdPoints : AppendMacd(x)
    \/ \E x \in MacdPoints : AppendSignal(x)
    \/ CallMacd

SpecMacd == InitMacd /\ [][NextMacd]_vars

\* the last two defined points of a series, as a series of two points
LastTwo(s) == <<Num(PrevDefined(s)), Num(LastDefined(s))>>

\* C6: check_macd_crossover_or_rising returns Pass exactly when both series
\* have at least two defined points and either prevMACD <= prevSignal and
\* lastMACD > lastSignal, or lastMACD > prevMACD, and Fail otherwise; the
\* verdict is the one the last two defined points of each series get alone.
C6_MacdCrossoverOrRising ==
    out.fn = "check_macd_crossover_or_rising" =>
        LET st == out.verdict.status
            macd == series[1]
            signal == series[2]
            enough == /\ Cardinality(DefinedAt(macd)) >= 2
                      /\ Cardinality(DefinedAt(signal)) >= 2
            crossover == /\ PrevDefined(macd) <= PrevDefined(signal)
                         /\ LastDefined(macd) > LastDefined(signal)
            rising == LastDefined(macd) > PrevDefined(macd)
        IN  /\ st \in {Pass, Fail}
            /\ st = Pass <=> (enough /\ (crossover \/ rising))
            /\ enough => out.verdict =
                   check_macd_crossover_or_rising(LastTwo(macd), LastTwo(signal))

\* a crossover without a rise passed, on series that hold an earlier point
\* and an undefined one
C6_Witness ==
    /\ out.fn = "check_macd_crossover_or_rising"
    /\ out.verdict.status = Pass
    /\ Len(series[1]) = 3 /\ Len(series[2]) = 3
    /\ Cardinality(DefinedAt(series[1])) = 2
    /\ LastDefined(series[1]) <= PrevDefined(series[1])
    /\ PrevDefined(series[1]) <= PrevDefined(series[2])
    /\ LastDefined(series[1]) > LastDefined(series[2])

----------------------------------------------------------------------------
(* What the data source may answer *)

\* n bars alternating between 10 and 11, the last one up; flat volume
Zigzag(n) ==
    Series([i \in 1..n |-> <<IF (n - i) % 2 = 0 THEN 11 ELSE 10, FlatVolume>>], n)

\* 30 flat bars, then a close above them on more than twice the volume
BreakoutBars == Series([i \in 1..31 |-> IF i <= 30 THEN FlatBar ELSE <<11, 20>>], 31)

WeeklyBars == {Zigzag(27)}

DailyBars == {Zigzag(31), BreakoutBars}

RequestFailed == Response(TRUE, <<>>)

NoResults == Response(FALSE, <<>>)

WeeklyResponses == {RequestFailed, NoResults} \cup {Response(FALSE, b) : b \in WeeklyBars}

DailyResponses == {RequestFailed, NoResults} \cup {Response(FALSE, b) : b \in DailyBars}

PriceResponses == {RequestFailed, NoResults, Response(FALSE, <<<<10>>>>)}

EarningsResponses ==
    {RequestFailed, NoResults,
     Response(FALSE, <<<<"dividend", 3>>>>),
     Response(FALSE, <<<<"earnings", 7>>, <<"dividend", 3>>, <<"earnings", 5>>>>)}

\* the ADXIndicator outcomes of the requests: an exception, a bullish and a
\* bearish reading
RequestAdxOutcomes ==
    {AdxOutcome(TRUE, NaN, NaN, NaN),
     AdxOutcome(FALSE, Num(25 * Scale), Num(20 * Scale), Num(10 * Scale)),
     AdxOutcome(FALSE, Num(25 * Scale), Num(10 * Scale), Num(20 * Scale))}

----------------------------------------------------------------------------
(* analyze_ticker called on arbitrary arguments *)

InitTicker ==
    /\ watchlist = <<>>
    /\ cache = <<>>
    /\ now = 0
    /\ pc = "idle"
    /\ criteria \in [CriteriaNames -> BOOLEAN]
    /\ idx = 0
    /\ results = <<>>
    /\ errors = <<>>
    /\ passing_results = <<>>
    /\ df \in {EmptyFrame} \cup {frame_of(b) : b \in WeeklyBars \cup DailyBars}
    /\ series = <<<<>>, <<>>>>
    /\ nAppended = 0
    /\ args \in [ticker : {"AAA"}, asset_type : {"Stock", "Option"},
                 daily_df : {EmptyFrame} \cup {frame_of(b) : b \in DailyBars},
                 current_price : {None, Num(10)}]
    /\ out = NoCall

\* ADXIndicator is constructed only by check_dmi_trend, past its length
\* gate; a request is made only by a fetch that finds no fresh cache entry
adx_called(crit, asset_type, data_df, daily_df) ==
    /\ ~empty(data_df)
    /\ enabled(crit, "dmi_confirmation", asset_type)
    /\ len(daily_df) >= 28

earnings_requested(crit, asset_type, c, t, ticker) ==
    /\ enabled(crit, "next_earning_date", asset_type)
    /\ ~cache_fresh(c, <<"earnings", ticker>>, t, 86400)

NoRequest == Response(TRUE, <<>>)

AdxOutcomesOf(crit, asset_type, data_df, daily_df) ==
    IF adx_called(crit, asset_type, data_df, daily_df)
    THEN RequestAdxOutcomes ELSE {NoInd}

EarningsResponsesOf(crit, asset_type, c, t, ticker) ==
    IF earnings_requested(crit, asset_type, c, t, ticker)
    THEN EarningsResponses ELSE {NoRequest}

CallAnalyzeTicker(ind, resp) ==
    /\ out.fn = "none"
    /\ LET a == analyze_ticker(args.ticker, args.asset_type, df, args.daily_df,
                               args.current_price, criteria, cache, now, ind, resp)
       IN  /\ out' = [fn |-> "analyze_ticker", result |-> a.result, exc |-> a.exc]
           /\ df' = a.data_df
           /\ cache' = a.cache
    /\ UNCHANGED <<watchlist, now, pc, criteria, idx, results, errors,
                   passing_results, series, nAppended, args>>

NextTicker ==
    \E ind \in AdxOutcomesOf(criteria, args.asset_type, df, args.daily_df),
       resp \in EarningsResponsesOf(criteria, args.asset_type, cache, now,
                                    args.ticker) :
        CallAnalyzeTicker(ind, resp)

SpecTicker == InitTicker /\ [][NextTicker]_vars

StockOnly == CriteriaNames \ {"rsi_confirmation"}

\* the criteria that got a verdict
Verdicts(result) == DOMAIN result \ Metadata

\* C1: a call of analyze_ticker with asset_type Option returns a result with
\* none of the keys dmi_confirmation, ema_crossover, macd_crossover,
\* weekly_macd, avoid_squeeze, next_earning_date, whatever the flags and the
\* two series.
C1_OptionSkipsStockOnly ==
    (out.fn = "analyze_ticker" /\ args.asset_type = "Option") =>
        Verdicts(out.result) \cap StockOnly = {}

\* an Option analysed with every flag on and bars at hand got its RSI
\* verdict and no other
C1_Witness ==
    /\ out.fn = "analyze_ticker"
    /\ args.asset_type = "Option"
    /\ \A k \in CriteriaNames : criteria[k]
    /\ ~empty(df) /\ ~empty(args.daily_df)
    /\ Verdicts(out.result) = {"rsi_confirmation"}

\* C4: a criterion whose flag is false has no entry in the result of
\* analyze_ticker.
C4_DisabledOmitted ==
    out.fn = "analyze_ticker" =>
        \A k \in CriteriaNames : ~criteria[k] => k \notin DOMAIN out.result

\* a Stock analysed with three flags off got exactly the other four verdicts
C4_Witness ==
    /\ out.fn = "analyze_ticker"
    /\ args.asset_type = "Stock"
    /\ {k \in CriteriaNames : ~criteria[k]} =
           {"rsi_confirmation", "ema_crossover", "next_earning_date"}
    /\ Verdicts(out.result) =
           {"dmi_confirmation", "macd_crossover", "weekly_macd", "avoid_squeeze"}

----------------------------------------------------------------------------
(* DatabaseManager: the watchlist table, as get_watchlist returns it       *)
(* (ORDER BY added_at DESC: the newest row first)                          *)

Tickers == {"AAA", "BBB"}

AssetTypes == {"Stock", "Option"}

\* what a user may type for a ticker
TickerInputs == Tickers \cup {"aaa"}

\* str.upper()
upper(t) == IF t = "aaa" THEN "AAA" ELSE t

Row(t, a) == [ticker |-> t, asset_type |-> a]

not_ticker(t, rows) == SelectSeq(rows, LAMBDA r : r.ticker # t)

\* a plain INSERT into a table without the UNIQUE constraint: the row of the
\* ticker, if any, stays
add_stock_to_watchlist_no_replace(rows, ticker, asset_type) ==
    <<Row(upper(ticker), asset_type)>> \o rows

\* INSERT OR REPLACE ... VALUES (ticker.upper(), asset_type, now): the row of
\* that ticker, if any, is replaced by a new, newest, one
add_stock_to_watchlist(rows, ticker, asset_type) ==
    <<Row(upper(ticker), asset_type)>> \o not_ticker(upper(ticker), rows)

\* DELETE ... WHERE ticker = ticker.upper(); returns rowcount > 0
remove_stock_from_watchlist(rows, ticker) ==
    [rows |-> not_ticker(upper(ticker), rows),
     removed |-> \E i \in 1..Len(rows) : rows[i].ticker = upper(ticker)]

----------------------------------------------------------------------------
(* app.py: the routes *)

\* the criteria sets a request may tick
AllCriteria == [c \in CriteriaNames |-> TRUE]

Only(S) == [c \in CriteriaNames |-> c \in S]

CriteriaChoices ==
    {AllCriteria, Only({})} \cup {Only({c}) : c \in CriteriaNames}

Init ==
    /\ watchlist = <<>>
    /\ AppIdle
    /\ df = EmptyFrame
    /\ series = <<<<>>, <<>>>>
    /\ nAppended = 0
    /\ args = NoArgs
    /\ out = NoCall

\* POST /add_ticker: the form's ticker is stripped and upper-cased
add_ticker(ticker, asset_type) ==
    /\ pc = "idle"
    /\ watchlist' = add_stock_to_watchlist(watchlist, upper(ticker), asset_type)
    /\ UNCHANGED <<cache, now, pc, criteria, idx, results, errors, passing_results>>
    /\ UNCHANGED harnessVars

\* GET /remove_ticker/<ticker>
remove_ticker(ticker) ==
    /\ pc = "idle"
    /\ watchlist' = remove_stock_from_watchlist(watchlist, ticker).rows
    /\ UNCHANGED <<cache, now, pc, criteria, idx, results, errors, passing_results>>
    /\ UNCHANGED harnessVars

\* POST /analyze, up to the loop: the criteria are read from the form and
\* the watchlist from the table; an empty watchlist ends the request
analyze_start(crit) ==
    /\ pc = "idle"
    /\ watchlist # <<>>
    /\ pc' = "loop"
    /\ criteria' = crit
    /\ idx' = 1
    /\ results' = <<>>
    /\ errors' = <<>>
    /\ passing_results' = <<>>
    /\ UNCHANGED <<watchlist, cache, now>>
    /\ UNCHANGED harnessVars

\* the data a loop iteration fetches for its ticker: the price, then for a
\* Stock the weekly and the daily bars, for an Option the daily bars and a
\* copy of them
fetch_for(c, t, row, respP, respW, respD) ==
    LET p == get_current_price(c, t, row.ticker, respP)
        w == IF row.asset_type = "Stock"
             THEN get_weekly_data(p.cache, t, row.ticker, respW)
             ELSE get_daily_data(p.cache, t, row.ticker, 90, respD)
        d == IF row.asset_type = "Stock"
             THEN get_daily_data(w.cache, t, row.ticker, 90, respD)
             ELSE w
    IN  [current_price |-> p.val, data_df |-> w.val, data_error |-> w.err,
         daily_df |-> d.val, cache |-> d.cache,
         exc |-> p.exc \/ w.exc \/ d.exc]

\* the cache key of the frame that data_df is (the same object, when the
\* fetch did not fail)
data_key(row) ==
    IF row.asset_type = "Stock" THEN <<"weekly", row.ticker>>
    ELSE <<"daily", row.ticker, 90>>

\* one iteration of the loop over the watchlist, for what the three bar and
\* price requests answer and for every outcome of the earnings request and
\* of ADXIndicator, where analyze_ticker gets that far.  An exception that
\* leaves a fetch or analyze_ticker ends the request with an error page.
analyze_one(respP, respW, respD) ==
    /\ pc = "loop"
    /\ idx <= Len(watchlist)
    /\ \E row \in {watchlist[idx]} :
       \E f \in {fetch_for(cache, now, row, respP, respW, respD)} :
       \E ind \in AdxOutcomesOf(criteria, row.asset_type, f.data_df, f.daily_df),
          respE \in EarningsResponsesOf(criteria, row.asset_type, f.cache, now,
                                       row.ticker) :
       \E a \in {analyze_ticker(row.ticker, row.asset_type, f.data_df, f.daily_df,
                                f.current_price, criteria, f.cache, now, ind, respE)} :
           IF f.exc \/ a.exc
           THEN /\ pc' = "aborted"
                /\ UNCHANGED <<idx, results, errors>>
                /\ cache' = f.cache
           ELSE /\ pc' = pc
                /\ idx' = idx + 1
                /\ results' = Append(results, a.result)
                /\ errors' = Append(errors, f.data_error)
                /\ cache' = IF empty(f.data_df) THEN a.cache
                            ELSE [a.cache EXCEPT ![data_key(row)].data = a.data_df]
    /\ UNCHANGED <<watchlist, now, criteria, passing_results>>
    /\ UNCHANGED harnessVars

\* the filter, were it to let only a Pass through
is_passing_pass_only(result) ==
    \E key \in DOMAIN result \ Metadata : result[key].status = Pass

\* any(value.get('status') in ['✅', '⚠️'] for key, value in result.items()
\*     if key not in ['ticker', 'asset_type', 'current_price'])
is_passing(result) ==
    \E key \in DOMAIN result \ Metadata : result[key].status \in {Pass, Warn}

\* the end of POST /analyze: the passing results go to the template
analyze_render ==
    /\ pc = "loop"
    /\ idx > Len(watchlist)
    /\ passing_results' = SelectSeq(results, is_passing)
    /\ pc' = "done"
    /\ UNCHANGED <<watchlist, cache, now, criteria, idx, results, errors>>
    /\ UNCHANGED harnessVars

Next ==
    \/ \E t \in TickerInputs, a \in AssetTypes : add_ticker(t, a)
    \/ \E t \in TickerInputs : remove_ticker(t)
    \/ \E crit \in CriteriaChoices : analyze_start(crit)
    \/ \E respP \in PriceResponses, respW \in WeeklyResponses,
          respD \in DailyResponses : analyze_one(respP, respW, respD)
    \/ analyze_render

Spec == Init /\ [][Next]_vars

----------------------------------------------------------------------------
(* Claims about one run of POST /analyze *)

\* the verdicts of a result that carry the given status
WithStatus(result, statuses) ==
    {k \in CriteriaNames \cap DOMAIN result : result[k].status \in statuses}

\* the passing view holds the result of the i-th ticker
InPassingView(i) ==
    \E j \in 1..Len(passing_results) :
        /\ passing_results[j]["ticker"] = results[i]["ticker"]
        /\ passing_results[j] = results[i]

\* C2: once the request has rendered, the passing view holds a ticker's
\* result if and only if at least one of its criterion verdicts has status
\* Pass or Warn; it holds nothing else, and keeps the order of the results.
C2_PassingView ==
    pc = "done" =>
        /\ \A i \in 1..Len(results) :
               InPassingView(i) <=> WithStatus(results[i], {Pass, Warn}) # {}
        /\ \A j \in 1..Len(passing_results) :
               \E i \in 1..Len(results) :
                   passing_results[j]["ticker"] = results[i]["ticker"]
        /\ Len(passing_results) <= Len(results)

\* a rendered request with a result whose verdicts are all Fail, which the
\* view leaves out, and a result with one Warn and no Pass, which it holds
C2_Witness ==
    /\ pc = "done"
    /\ \E i \in 1..Len(results) :
           /\ WithStatus(results[i], {Fail}) # {}
           /\ WithStatus(results[i], {Pass, Warn}) = {}
           /\ ~InPassingView(i)
    /\ \E i \in 1..Len(results) :
           /\ Cardinality(WithStatus(results[i], {Warn})) = 1
           /\ WithStatus(results[i], {Pass}) = {}
           /\ InPassingView(i)

\* C3: when the fetch of a ticker's bars returned an empty frame with an
\* error message, every criterion that is enabled and applies to the asset
\* type is in the ticker's result with status Fail.
C3_FailedSourceAllFail ==
    \A i \in 1..Len(results) :
        errors[i] # "" =>
            \A name \in CriteriaNames :
                enabled(criteria, name, watchlist[i].asset_type) =>
                    /\ name \in DOMAIN results[i]
                    /\ results[i][name].status = Fail

\* C5: a request never ends in an exception: in the loop and after it the
\* results are those of the tickers before idx, one for each and in the
\* order of the watchlist, and a rendered request has one for every ticker.
C5_NeverAborts ==
    /\ pc # "aborted"
    /\ pc \in {"loop", "done"} =>
           /\ Len(results) = idx - 1
           /\ Len(errors) = Len(results)
           /\ \A i \in 1..Len(results) :
                  /\ results[i]["ticker"] = watchlist[i].ticker
                  /\ results[i]["asset_type"] = watchlist[i].asset_type
    /\ pc = "done" => Len(results) = Len(watchlist)

\* a rendered request over two tickers, for both of which the price and the
\* bars could not be fetched, and for a Stock among them the earnings
\* request failed too
C5_Witness ==
    /\ pc = "done"
    /\ Len(watchlist) = 2
    /\ Len(results) = 2
    /\ \A i \in 1..2 :
           /\ errors[i] = "request failed"
           /\ results[i]["current_price"].value = None
    /\ \E i \in 1..2 :
           /\ "next_earning_date" \in DOMAIN results[i]
           /\ results[i]["next_earning_date"].message = "request failed"

----------------------------------------------------------------------------
(* The indicators and the evaluators on bar frames of every length about   *)
(* their lookbacks, called as analyze_ticker calls them                    *)

\* the lengths of the flat frames the bars are appended to
IndicatorLens == {1, 13, 19, 24, 27}

\* the spans analyze_ticker passes to get_macd: for macd_crossover and for
\* weekly_macd (the defaults)
MacdSpans == {<<8, 21, 9>>, <<12, 26, 9>>}

\* the bars that may follow the flat ones: a fall, a flat bar on high
\* volume, a rise on high volume
IndicatorBars == {<<9, 9>>, <<10, 20>>, <<11, 20>>}

InitIndicators ==
    /\ AppIdle
    /\ watchlist = <<>>
    /\ df \in {EmptyFrame} \cup
              {Frame(Flat(n, FlatClose), Flat(n, FlatVolume)) : n \in IndicatorLens}
    /\ series = <<<<>>, <<>>>>
    /\ nAppended = 0
    /\ args = NoArgs
    /\ out = NoCall

\* d['RSI'] = self.calculate_rsi(d), then self.check_rsi_condition(d), on
\* a copy d of the frame
CallRsiOnBars ==
    /\ out' = Call("check_rsi_condition",
                   check_rsi_condition(set_RSI(df, calculate_rsi(df, 14))), NoInd)
    /\ UNCHANGED <<df, series, nAppended, args>>
    /\ UNCHANGED appVars

\* macd, signal = self.get_macd(df, fast, slow, signal_period), then
\* self.check_macd_crossover_or_rising(macd, signal)
CallMacdOnBars(spans) ==
    /\ \E m \in {get_macd(df, spans[1], spans[2], spans[3])} :
           /\ series' = m
           /\ out' = [fn |-> "check_macd_crossover_or_rising",
                      verdict |-> check_macd_crossover_or_rising(m[1], m[2]),
                      ind |-> NoInd, spans |-> spans]
    /\ UNCHANGED <<df, nAppended, args>>
    /\ UNCHANGED appVars

\* self.calculate_rsi(df) alone
CallCalculateRsi ==
    /\ series' = <<calculate_rsi(df, 14), <<>>>>
    /\ out' = Call("calculate_rsi", NoCall.verdict, NoInd)
    /\ UNCHANGED <<df, nAppended, args>>
    /\ UNCHANGED appVars

\* self.get_macd(df, fast, slow, signal_period) alone
CallGetMacd(spans) ==
    /\ series' = get_macd(df, spans[1], spans[2], spans[3])
    /\ out' = [fn |-> "get_macd", verdict |-> NoCall.verdict, ind |-> NoInd,
               spans |-> spans]
    /\ UNCHANGED <<df, nAppended, args>>
    /\ UNCHANGED appVars

NextIndicators ==
    \/ \E b \in IndicatorBars : AppendBar(b)
    \/ CallEma
    \/ CallSqueeze
    \/ \E ind \in RequestAdxOutcomes : CallDmi(ind)
    \/ CallRsiOnBars
    \/ \E spans \in MacdSpans : CallMacdOnBars(spans)
    \/ CallCalculateRsi
    \/ \E spans \in MacdSpans : CallGetMacd(spans)

SpecIndicators == InitIndicators /\ [][NextIndicators]_vars

Evaluators ==
    {"check_rsi_condition", "check_macd_crossover_or_rising", "check_dmi_trend",
     "check_ema_crossover", "check_short_squeeze_risk"}

\* the fewest bars on which an evaluator can give anything but Fail: two
\* defined RSI values need period + 2 bars, a MACD `slow` bars
MinLookback(o) ==
    CASE o.fn = "check_rsi_condition" -> 14 + 2
      [] o.fn = "check_macd_crossover_or_rising" -> o.spans[2]
      [] o.fn = "check_dmi_trend" -> 28
      [] o.fn = "check_ema_crossover" -> 21
      [] o.fn = "check_short_squeeze_risk" -> 30

\* C11: an evaluator called on a bar frame of any length, the empty frame
\* of a failed fetch included, returns one verdict whose status is Pass,
\* Fail or Warn (an exception of the ADX library included); on a frame
\* shorter than its minimum lookback the verdict is Fail with a message and
\* the value None.
C11_EvaluatorsDegrade ==
    out.fn \in Evaluators =>
        /\ out.verdict.status \in {Pass, Fail, Warn}
        /\ DOMAIN out.verdict = {"status", "message", "value"}
        /\ len(df) < MinLookback(out) =>
               /\ out.verdict.status = Fail
               /\ out.verdict.message # ""
               /\ out.verdict.value = None

\* the EMA evaluator has answered Fail on 20 bars, one short of its lookback
C11_Witness ==
    /\ out.fn = "check_ema_crossover"
    /\ len(df) = 20
    /\ out.verdict = Verdict(Fail, "Not enough data for EMA calculation", None)

\* C13: on a frame shorter than the lookback the indicator returns empty
\* series: get_macd a pair of empty series below `slow` bars, calculate_rsi
\* an empty series below `period` = 14 bars; nothing such a call returns has
\* a defined value.  From the lookback on, the series are as long as the
\* frame.
C13_ShortSeriesEmpty ==
    /\ out.fn = "get_macd" =>
           IF len(df) < out.spans[2]
           THEN series = <<<<>>, <<>>>>
           ELSE Len(series[1]) = len(df) /\ Len(series[2]) = len(df)
    /\ out.fn = "calculate_rsi" =>
           /\ IF len(df) < 14 THEN series[1] = <<>>
              ELSE Len(series[1]) = len(df)
           /\ len(df) <= 14 => dropna(series[1]) = <<>>

\* get_macd with the default spans has returned the empty pair on 25 bars
C13_Witness ==
    /\ out.fn = "get_macd"
    /\ out.spans = <<12, 26, 9>>
    /\ len(df) = 25
    /\ series = <<<<>>, <<>>>>

\* no close up to bar i is below the one before it: every loss up to i is
\* zero, and so is their smoothed average
ZeroLoss(closes, i) == \A j \in 2..i : closes[j] >= closes[j - 1]

\* C16: calculate_rsi gives 100 at every bar from the one that has `period`
\* price changes before it (bar 15) at which the smoothed average loss is
\* exactly zero, a frame whose closes never change included.
C16_ZeroLossIs100 ==
    out.fn = "calculate_rsi" =>
        \A i \in 15..Len(series[1]) :
            ZeroLoss(df.Close, i) => series[1][i] = Num(100 * Scale)

----------------------------------------------------------------------------
(* TechnicalAnalyzer.generate_chart.  A figure is its traces (name and y   *)
(* values), its horizontal lines, its title and its annotation; None       *)
(* stands for a title or an annotation that was not set.                   *)

Trace(name, y) == [name |-> name, y |-> y]

Figure(traces, hlines, title, annotation) ==
    [traces |-> traces, hlines |-> hlines, title |-> title,
     annotation |-> annotation]

\* the except branch: an empty figure annotated with the error text
ErrorFigure == Figure(<<>>, <<>>, None, <<"Error generating chart">>)

\* ind is what ADXIndicator gives for daily_df; of its three series the
\* ends are modelled
generate_chart(ticker, chart_type, daily_df, weekly_df, asset_type, ind) ==
    IF chart_type = "rsi" /\ ~empty(daily_df)
    THEN Figure(<<Trace("RSI", calculate_rsi(daily_df, 14))>>, <<70, 30>>,
                <<ticker, "RSI">>, None)
    ELSE IF chart_type = "macd" /\ ~empty(daily_df)
    THEN Figure(<<Trace("MACD", get_macd(daily_df, 8, 21, 9)[1]),
                  Trace("Signal", get_macd(daily_df, 8, 21, 9)[2])>>, <<0>>,
                <<ticker, "Daily MACD">>, None)
    ELSE IF chart_type = "weekly_macd" /\ ~empty(weekly_df)
    THEN Figure(<<Trace("Weekly MACD", get_macd(weekly_df, 12, 26, 9)[1]),
                  Trace("Weekly Signal", get_macd(weekly_df, 12, 26, 9)[2])>>, <<0>>,
                <<ticker, "Weekly MACD">>, None)
    ELSE IF chart_type = "ema" /\ ~empty(daily_df)
    THEN Figure(<<Trace("Close Price", close_series(daily_df)),
                  Trace("EMA 8", ewm_span(close_series(daily_df), 8)),
                  Trace("EMA 21", ewm_span(close_series(daily_df), 21))>>, <<>>,
                <<ticker, "EMA Crossover">>, None)
    ELSE IF chart_type = "dmi" /\ ~empty(daily_df)
    THEN IF ind.raised THEN ErrorFigure
         ELSE Figure(<<Trace("+DI", <<ind.plus_di>>), Trace("-DI", <<ind.minus_di>>),
                       Trace("ADX", <<ind.adx>>)>>, <<20>>,
                     <<ticker, "DMI Indicators (Last 60 Days)">>, None)
    ELSE Figure(<<>>, <<>>, None, None)

ChartTypes == {"rsi", "macd", "weekly_macd", "ema", "dmi", "volume"}

\* five bars only
ShortBars == Zigzag(5)

ChartFrames ==
    {EmptyFrame} \cup {frame_of(b) : b \in {ShortBars, Zigzag(27), Zigzag(31)}}

\* df is the weekly frame of the call, args.daily_df the daily one
InitChart ==
    /\ AppIdle
    /\ watchlist = <<>>
    /\ df \in ChartFrames
    /\ series = <<<<>>, <<>>>>
    /\ nAppended = 0
    /\ args \in [ticker : {"AAA"}, asset_type : AssetTypes,
                 daily_df : ChartFrames, current_price : {None}]
    /\ out = NoCall

CallGenerateChart(chart_type, ind) ==
    /\ out.fn = "none"
    /\ ind \in (IF chart_type = "dmi" /\ ~empty(args.daily_df)
                THEN RequestAdxOutcomes ELSE {NoInd})
    /\ out' = [fn |-> "generate_chart", chart_type |-> chart_type,
               figure |-> generate_chart(args.ticker, chart_type, args.daily_df, df,
                                         args.asset_type, ind)]
    /\ UNCHANGED <<df, series, nAppended, args>>
    /\ UNCHANGED appVars

NextChart ==
    \E chart_type \in ChartTypes, ind \in RequestAdxOutcomes \cup {NoInd} :
        CallGenerateChart(chart_type, ind)

SpecChart == InitChart /\ [][NextChart]_vars

\* the frame a chart type is drawn from
ChartInput(chart_type) == IF chart_type = "weekly_macd" THEN df ELSE args.daily_df

----------------------------------------------------------------------------
(* Claims about analyze_ticker and the frames it is given (SpecTicker)     *)

\* C14: a call of analyze_ticker leaves the long frame and the daily frame
\* as they were: the same bars and the same columns, for every criteria set.
C14_FramesUnchanged == [][df' = df /\ args'.daily_df = args.daily_df]_vars

\* the verdicts an evaluator can give on a frame alone, with the spans fixed
\* for its criterion: for dmi_confirmation one for each answer of the ADX
\* library
OnSeriesAlone(name, long, daily) ==
    CASE name = "weekly_macd" ->
             {check_macd_crossover_or_rising(get_macd(long, 12, 26, 9)[1],
                                             get_macd(long, 12, 26, 9)[2])}
      [] name = "macd_crossover" ->
             {check_macd_crossover_or_rising(get_macd(daily, 8, 21, 9)[1],
                                             get_macd(daily, 8, 21, 9)[2])}
      [] name = "dmi_confirmation" ->
             {check_dmi_trend(daily, ind) : ind \in RequestAdxOutcomes}
      [] name = "ema_crossover" -> {check_ema_crossover(daily, 8, 21)}
      [] name = "avoid_squeeze" -> {check_short_squeeze_risk(daily)}

Dispatched ==
    {"weekly_macd", "macd_crossover", "dmi_confirmation", "ema_crossover",
     "avoid_squeeze"}

\* C15: for a Stock every enabled criterion among weekly_macd,
\* macd_crossover, dmi_confirmation, ema_crossover and avoid_squeeze gets
\* the verdict of its evaluator on its own series with its own spans
\* (12/26/9 on the long series for weekly_macd, the daily series for the
\* others, 8/21/9 for macd_crossover), whatever the other series holds.
C15_DispatchBySeries ==
    (out.fn = "analyze_ticker" /\ args.asset_type = "Stock") =>
        \A name \in Dispatched :
            criteria[name] =>
                /\ name \in DOMAIN out.result
                /\ out.result[name] \in OnSeriesAlone(name, df, args.daily_df)

----------------------------------------------------------------------------
(* The client alone: fetches for one ticker, with time passing between     *)
(* them                                                                    *)

\* the clock readings: the start, and the second before and the second of
\* each expiry of an entry stored at the start
Times == {0, 599, 600, 3599, 3600, 86399, 86400}

CacheTicker == "AAA"

\* two daily or weekly bars
CacheBars == <<FlatBar, <<11, 9>>>>

BarResponses == {RequestFailed, NoResults, Response(FALSE, CacheBars)}

InitCache ==
    /\ AppIdle
    /\ watchlist = <<>>
    /\ df = EmptyFrame
    /\ series = <<<<>>, <<>>>>
    /\ nAppended = 0
    /\ args = NoArgs
    /\ out = NoCall

\* what a fetch leaves to be seen: its name and key, what it returned, the
\* cache and the clock it found, and whether it issued a request: it did if
\* and only if with the network down it answers with an error
FetchRecord(fn, key, ttl, f, probe) ==
    [fn |-> fn, key |-> key, ttl |-> ttl, val |-> f.val, err |-> f.err,
     before |-> cache, requested |-> probe.err # ""]

FetchDaily(resp) ==
    /\ \E f \in {get_daily_data(cache, now, CacheTicker, 90, resp)} :
           /\ cache' = f.cache
           /\ out' = FetchRecord("get_daily_data", <<"daily", CacheTicker, 90>>, 3600, f,
                                 get_daily_data(cache, now, CacheTicker, 90, RequestFailed))
    /\ UNCHANGED <<watchlist, now, pc, criteria, idx, results, errors, passing_results>>
    /\ UNCHANGED <<df, series, nAppended, args>>

FetchWeekly(resp) ==
    /\ \E f \in {get_weekly_data(cache, now, CacheTicker, resp)} :
           /\ cache' = f.cache
           /\ out' = FetchRecord("get_weekly_data", <<"weekly", CacheTicker>>, 3600, f,
                                 get_weekly_data(cache, now, CacheTicker, RequestFailed))
    /\ UNCHANGED <<watchlist, now, pc, criteria, idx, results, errors, passing_results>>
    /\ UNCHANGED <<df, series, nAppended, args>>

FetchPrice(resp) ==
    /\ \E f \in {get_current_price(cache, now, CacheTicker, resp)} :
           /\ cache' = f.cache
           /\ out' = FetchRecord("get_current_price", <<"price", CacheTicker>>, 600, f,
                                 get_current_price(cache, now, CacheTicker, RequestFailed))
    /\ UNCHANGED <<watchlist, now, pc, criteria, idx, results, errors, passing_results>>
    /\ UNCHANGED <<df, series, nAppended, args>>

FetchEarnings(resp) ==
    /\ \E f \in {get_next_earnings_date(cache, now, CacheTicker, resp)} :
           /\ cache' = f.cache
           /\ out' = FetchRecord("get_next_earnings_date", <<"earnings", CacheTicker>>,
                                 86400, f,
                                 get_next_earnings_date(cache, now, CacheTicker,
                                                        RequestFailed))
    /\ UNCHANGED <<watchlist, now, pc, criteria, idx, results, errors, passing_results>>
    /\ UNCHANGED <<df, series, nAppended, args>>

\* time.time() moves on
Tick(t) ==
    /\ t > now
    /\ now' = t
    /\ out' = NoCall
    /\ UNCHANGED <<watchlist, cache, pc, criteria, idx, results, errors,
                   passing_results>>
    /\ UNCHANGED <<df, series, nAppended, args>>

\* self._cache.clear()
clear_cache ==
    /\ cache # <<>>
    /\ cache' = <<>>
    /\ out' = NoCall
    /\ UNCHANGED <<watchlist, now, pc, criteria, idx, results, errors,
                   passing_results>>
    /\ UNCHANGED <<df, series, nAppended, args>>

NextCache ==
    \/ \E resp \in BarResponses : FetchDaily(resp)
    \/ \E resp \in BarResponses : FetchWeekly(resp)
    \/ \E resp \in PriceResponses : FetchPrice(resp)
    \/ \E resp \in EarningsResponses : FetchEarnings(resp)
    \/ \E t \in Times : Tick(t)
    \/ clear_cache

SpecCache == InitCache /\ [][NextCache]_vars

Fetches ==
    {"get_daily_data", "get_weekly_data", "get_current_price",
     "get_next_earnings_date"}

Answered(responses) == {r \in responses : ~r.raised /\ r.results # <<>>}

\* what a successful request can give for a key of each kind
CacheableValues(kind) ==
    CASE kind \in {"daily", "weekly"} ->
             {frame_of(r.results) : r \in Answered(BarResponses)}
      [] kind = "price" ->
             {Num(r.results[1][1]) : r \in Answered(PriceResponses)}
      [] kind = "earnings" ->
             UNION {{<<r.results[i][2]>> :
                        i \in {j \in 1..Len(r.results) : r.results[j][1] = "earnings"}} :
                    r \in Answered(EarningsResponses)}

\* C17: the cache holds only values a successful request gave, stored at a
\* past reading of the clock; a fetch that returns an error leaves the cache
\* as it found it; a fetch answers from the cache, issuing no request, if
\* and only if the entry of its key was stored less than its TTL ago (3600
\* for daily and weekly bars, 600 for the price, 86400 for the earnings
\* date), so an entry at or past its TTL, or no entry, causes a request;
\* and a request that succeeds stores its value under its key at the
\* current time and touches no other entry.
C17_CacheDiscipline ==
    /\ \A key \in DOMAIN cache :
           /\ cache[key].data \in CacheableValues(key[1])
           /\ cache[key].time <= now
    /\ out.fn \in Fetches =>
           LET stored == out.key \in DOMAIN out.before
               fresh == stored /\ now - out.before[out.key].time < out.ttl
           IN  /\ out.ttl = (CASE out.fn = "get_current_price" -> 600
                               [] out.fn = "get_next_earnings_date" -> 86400
                               [] OTHER -> 3600)
               /\ out.requested <=> ~fresh
               /\ ~out.requested =>
                      /\ out.val = out.before[out.key].data
                      /\ out.err = ""
                      /\ cache = out.before
               /\ out.err # "" => cache = out.before
               /\ (out.requested /\ out.err = "") =>
                      /\ DOMAIN cache = DOMAIN out.before \cup {out.key}
                      /\ cache[out.key] = [data |-> out.val, time |-> now]
                      /\ \A k \in DOMAIN out.before \ {out.key} :
                             cache[k] = out.before[k]

\* a price stored 600 seconds ago was requested anew and stored again,
\* while bars and an earnings date stored at the same time stayed cached
C17_Witness ==
    /\ out.fn = "get_current_price"
    /\ out.key \in DOMAIN out.before
    /\ now - out.before[out.key].time = 600
    /\ out.requested
    /\ cache[out.key].time = now
    /\ \E k \in DOMAIN cache : k[1] = "daily" /\ cache[k].time = now - 600
    /\ \E k \in DOMAIN cache : k[1] = "earnings" /\ cache[k].time = now - 600

----------------------------------------------------------------------------
(* The watchlist table alone: any sequence of adds and removes.  The last  *)
(* operation on each upper-cased ticker is kept beside the last call.      *)

NoHistory == [t \in Tickers |-> <<"none">>]

History == IF out.fn = "none" THEN NoHistory ELSE out.last

InitDb ==
    /\ AppIdle
    /\ watchlist = <<>>
    /\ df = EmptyFrame
    /\ series = <<<<>>, <<>>>>
    /\ nAppended = 0
    /\ args = NoArgs
    /\ out = NoCall

\* db.add_stock_to_watchlist(ticker, asset_type)
DbAdd(ticker, asset_type) ==
    /\ watchlist' = add_stock_to_watchlist(watchlist, ticker, asset_type)
    /\ out' = [fn |-> "add_stock_to_watchlist", ticker |-> ticker,
               asset_type |-> asset_type, returned |-> TRUE, before |-> watchlist,
               last |-> [History EXCEPT ![upper(ticker)] = <<"add", asset_type>>]]
    /\ UNCHANGED <<cache, now, pc, criteria, idx, results, errors, passing_results>>
    /\ UNCHANGED <<df, series, nAppended, args>>

\* db.remove_stock_from_watchlist(ticker)
DbRemove(ticker) ==
    /\ \E r \in {remove_stock_from_watchlist(watchlist, ticker)} :
           /\ watchlist' = r.rows
           /\ out' = [fn |-> "remove_stock_from_watchlist", ticker |-> ticker,
                      asset_type |-> "", returned |-> r.removed, before |-> watchlist,
                      last |-> [History EXCEPT ![upper(ticker)] = <<"remove">>]]
    /\ UNCHANGED <<cache, now, pc, criteria, idx, results, errors, passing_results>>
    /\ UNCHANGED <<df, series, nAppended, args>>

NextDb ==
    \/ \E t \in TickerInputs, a \in AssetTypes : DbAdd(t, a)
    \/ \E t \in TickerInputs : DbRemove(t)

SpecDb == InitDb /\ [][NextDb]_vars

\* the rows of get_watchlist that hold the ticker
RowsOf(rows, t) == {i \in 1..Len(rows) : rows[i].ticker = t}

\* C18: get_watchlist holds upper-cased tickers, at most one row for each; a
\* ticker is listed if and only if the last operation on it, whatever the
\* case it was typed in, was an add, and then with the asset type of that
\* add; remove returns true exactly when the ticker was listed before.
C18_WatchlistTable ==
    /\ \A i \in 1..Len(watchlist) :
           /\ watchlist[i].ticker \in Tickers
           /\ RowsOf(watchlist, watchlist[i].ticker) = {i}
    /\ \A t \in Tickers :
           /\ RowsOf(watchlist, t) # {} <=> History[t][1] = "add"
           /\ \A i \in RowsOf(watchlist, t) :
                  watchlist[i].asset_type = History[t][2]
    /\ out.fn = "remove_stock_from_watchlist" =>
           (out.returned <=> RowsOf(out.before, upper(out.ticker)) # {})

\* AAA, added as a Stock and again as an Option, was removed as "aaa" and
\* the remove returned true; BBB stays listed
C18_Witness ==
    /\ out.fn = "remove_stock_from_watchlist"
    /\ out.ticker = "aaa"
    /\ out.returned
    /\ out.before = <<Row("BBB", "Stock"), Row("AAA", "Option")>>
    /\ watchlist = <<Row("BBB", "Stock")>>

====
